---- MODULE Spec2Model ----
(***************************************************************************)
(* Model of vs/workbench/services/progress/browser/progressService.ts:     *)
(* the scoped progress reporter (ScopedProgressService), the unscoped      *)
(* reporter (ProgressService) driven by the same calls, the promises       *)
(* handed to showWhile with their reaction jobs, and the progress bar      *)
(* widget both reporters talk to.                                          *)
(***************************************************************************)
EXTENDS Integers, Sequences, FiniteSets, TLC

\* ----------------------------------------------------------------- bounds
MaxOps == 2      \* promises the callers create and hand to showWhile
MaxCalls == 2    \* showWhile calls in one run
MaxSteps == 4    \* calls and scope events in one run
MaxStepsBoth == 2    \* the same, in a run that drives both reporters
MaxStepsLive == 3    \* the same, in a run checked to its end
MinTime == 1     \* the reading of the clock (Date.now()) at construction
MaxTime == 3     \* largest reading of the clock
MaxDelay == 2    \* largest delay argument
MaxTotal == 1    \* largest total argument
MaxDelta == 1    \* largest argument of handle.worked

\* `undefined` of the source (an absent delay, total or worked); every number
\* the callers pass is >= 0 in this model
Undef == 0 - 1

Delays == {Undef, MaxDelay}
Totals == 0..MaxTotal
Deltas == 0..MaxDelta
Outcomes == {"fulfilled", "rejected"}
ScopeIds == {"self", "other"}
OwnScopeId == "self"

\* ------------------------------------------------------- progress states
NoneProgressState == [type |-> "none"]
DoneProgressState == [type |-> "done"]
InfiniteProgressState == [type |-> "infinite"]
WhileProgressState(whilePromise, whileStart, whileDelay) ==
    [type |-> "while", whilePromise |-> whilePromise,
     whileStart |-> whileStart, whileDelay |-> whileDelay]
WorkProgressState(total, worked) ==
    [type |-> "work", total |-> total, worked |-> worked]

\* --------------------------------------------------------------- widget
\* a widget call: the method and its argument (Undef when it has none)
Call(op, arg) == [op |-> op, arg |-> arg]

NewBar == [mode |-> "stopped", total |-> Undef, worked |-> 0]

\* ProgressBar: the effect of one call on the widget
BarApply(b, c) ==
    CASE c.op = "infinite" -> [b EXCEPT !.mode = "infinite"]
      [] c.op = "total" -> [mode |-> "determinate", total |-> c.arg, worked |-> 0]
      [] c.op = "worked" -> [b EXCEPT !.worked = b.worked + c.arg]
      [] c.op = "stop" -> NewBar
      [] OTHER -> b    \* show(delay), hide(): visibility only

RECURSIVE BarApplyAll(_, _)
BarApplyAll(b, cs) ==
    IF cs = <<>> THEN b ELSE BarApplyAll(BarApply(b, Head(cs)), Tail(cs))

\* ProgressBar.hasTotal()
hasTotal(b) == b.total # Undef

VARIABLES
    isActive,       \* ScopedProgressService.isActive
    progressState,  \* ScopedProgressService.progressState
    bar,            \* the widget of the scoped reporter
    ubar,           \* the widget of the unscoped reporter (same calls)
    refState,       \* progressState of a scoped reporter that is active from
                    \* construction on and gets the same calls, no scope events
    refBar,         \* and its widget
    now,            \* Date.now()
    opState,        \* the callers' promises: pending / fulfilled / rejected
    calls,          \* one record per showWhile call
    jobs,           \* promise reaction jobs, in the order they were queued
    hasHandle,      \* show() has returned a handle
    steps,          \* calls and scope events so far
    lastOp,         \* the step taken last
    lastCalls,      \* widget calls the scoped reporter made in the last step
    whileArgs,      \* delay and time of the showWhile call that recorded the
                    \* current While state
    workedSum,      \* sum of the worked() amounts since the state became Work
    onlyWhile,      \* active since construction, and showWhile the only call
    stops,          \* widget stop() calls while onlyWhile
    sinceDone,      \* a handle's done() was called, and no show or showWhile
                    \* call has been made since
    withUnscoped,   \* the callers drive an unscoped reporter with the same
                    \* calls and promises (fixed at construction)
    stepBound       \* calls and scope events the callers make in this run

vars == <<isActive, progressState, bar, ubar, refState, refBar, now, opState, calls, jobs,
          hasHandle, steps, lastOp, lastCalls, whileArgs, workedSum, onlyWhile,
          stops, sinceDone, withUnscoped, stepBound>>

\* ------------------------------------------- ScopedProgressService (pure)
\* the result of a handler: the new progressState and the widget calls made
Result(state, cs) == [state |-> state, calls |-> cs]

\* ScopedService.onScopeOpened / onScopeClosed: the scope id filter
\* a scope test that lets every scope id through
isOwnScopeAny(scopeId) == scopeId \in ScopeIds

isOwnScope(scopeId) == scopeId = OwnScopeId

\* onScopeActivated, the While branch: the delay handed to doShowWhile
\* a replay that passes the delay first asked for, whatever time has passed
remainingDelayFull(ps, t) == IF ps.whileStart > 0 THEN ps.whileStart ELSE Undef

remainingDelay(ps, t) ==
    IF ps.whileDelay > 0 /\ ps.whileDelay - (t - ps.whileStart) > 0
    THEN ps.whileDelay - (t - ps.whileStart)
    ELSE Undef

\* doShowWhile without its isActive test
doShowWhileUnguarded(active, delay) ==
    <<Call("infinite", Undef), Call("show", delay)>>

\* doShowWhile(delay)
doShowWhile(active, delay) ==
    IF active THEN <<Call("infinite", Undef), Call("show", delay)>> ELSE <<>>

\* an activation that replays Infinite and Work states but not While
onScopeActivatedNoWhile(ps, t) ==
    CASE ps.type = "infinite" -> <<Call("infinite", Undef), Call("show", Undef)>>
      [] ps.type = "work" ->
            (IF ps.total # Undef /\ ps.total # 0
             THEN <<Call("total", ps.total), Call("show", Undef)>> ELSE <<>>)
            \o
            (IF ps.worked # Undef /\ ps.worked # 0
             THEN <<Call("worked", ps.worked), Call("show", Undef)>> ELSE <<>>)
      [] OTHER -> <<>>

\* onScopeActivated: the replay, with isActive already set to true
onScopeActivated(ps, t) ==
    CASE ps.type = "done" -> <<>>
      [] ps.type = "while" -> doShowWhile(TRUE, remainingDelay(ps, t))
      [] ps.type = "infinite" -> <<Call("infinite", Undef), Call("show", Undef)>>
      [] ps.type = "work" ->
            (IF ps.total # Undef /\ ps.total # 0
             THEN <<Call("total", ps.total), Call("show", Undef)>> ELSE <<>>)
            \o
            (IF ps.worked # Undef /\ ps.worked # 0
             THEN <<Call("worked", ps.worked), Call("show", Undef)>> ELSE <<>>)
      [] OTHER -> <<>>

\* show(infinite: boolean, delay)
showInfinite(active, delay) ==
    Result(InfiniteProgressState,
           IF active THEN <<Call("infinite", Undef), Call("show", delay)>> ELSE <<>>)

\* show(total: number, delay)
showTotal(active, total, delay) ==
    Result(WorkProgressState(total, Undef),
           IF active THEN <<Call("total", total), Call("show", delay)>> ELSE <<>>)

\* the handle's total(total)
handleTotal(ps, active, total) ==
    Result(WorkProgressState(total, IF ps.type = "work" THEN ps.worked ELSE Undef),
           IF active THEN <<Call("total", total)>> ELSE <<>>)

\* worked() that drops the call when the widget has no total
handleWorkedDropping(ps, active, barHasTotal, worked) ==
    IF ~active \/ barHasTotal
    THEN Result(WorkProgressState(
                    IF ps.type = "work" THEN ps.total ELSE Undef,
                    IF ps.type = "work" /\ ps.worked # Undef
                    THEN ps.worked + worked ELSE worked),
                IF active THEN <<Call("worked", worked)>> ELSE <<>>)
    ELSE Result(ps, <<>>)

\* worked() that records the last amount instead of adding it up
handleWorkedReplacing(ps, active, barHasTotal, worked) ==
    IF ~active \/ barHasTotal
    THEN Result(WorkProgressState(
                    IF ps.type = "work" THEN ps.total ELSE Undef, worked),
                IF active THEN <<Call("worked", worked)>> ELSE <<>>)
    ELSE Result(InfiniteProgressState,
                <<Call("infinite", Undef), Call("show", Undef)>>)

\* worked() that falls back to Infinite whenever the state is not Work
handleWorkedStrict(ps, active, barHasTotal, worked) ==
    IF ps.type = "work" /\ (~active \/ barHasTotal)
    THEN Result(WorkProgressState(
                    ps.total,
                    IF ps.worked # Undef THEN ps.worked + worked ELSE worked),
                IF active THEN <<Call("worked", worked)>> ELSE <<>>)
    ELSE Result(InfiniteProgressState,
                IF active THEN <<Call("infinite", Undef), Call("show", Undef)>>
                ELSE <<>>)

\* the handle's worked(worked); barHasTotal is progressbar.hasTotal()
handleWorked(ps, active, barHasTotal, worked) ==
    IF ~active \/ barHasTotal
    THEN Result(WorkProgressState(
                    IF ps.type = "work" THEN ps.total ELSE Undef,
                    IF ps.type = "work" /\ ps.worked # Undef
                    THEN ps.worked + worked ELSE worked),
                IF active THEN <<Call("worked", worked)>> ELSE <<>>)
    ELSE Result(InfiniteProgressState,
                <<Call("infinite", Undef), Call("show", Undef)>>)

\* done() that forwards nothing to the widget
handleDoneSilent(active) == Result(DoneProgressState, <<>>)

\* the handle's done()
handleDone(active) ==
    Result(DoneProgressState,
           IF active THEN <<Call("stop", Undef), Call("hide", Undef)>> ELSE <<>>)

\* showWhile: the state it records; the constructor takes (whilePromise,
\* whileStart, whileDelay) and is called with (promise, delay || 0, Date.now())
showWhileState(promise, delay, t) ==
    WhileProgressState(promise, IF delay = Undef THEN 0 ELSE delay, t)

\* stop that returns early on every While state, its own included
stopKeepsWhile(ps, active, promise) ==
    IF ps.type = "while" THEN Result(ps, <<>>)
    ELSE Result(NoneProgressState,
                IF active THEN <<Call("stop", Undef), Call("hide", Undef)>> ELSE <<>>)

\* stop without the test that the recorded promise is the one hooked on
stopUnchecked(ps, active, promise) ==
    Result(NoneProgressState,
           IF active THEN <<Call("stop", Undef), Call("hide", Undef)>> ELSE <<>>)

\* showWhile: the stop closure of the call that hooked on `promise`
stop(ps, active, promise) ==
    IF ps.type = "while" /\ ps.whilePromise # promise
    THEN Result(ps, <<>>)
    ELSE Result(NoneProgressState,
                IF active THEN <<Call("stop", Undef), Call("hide", Undef)>> ELSE <<>>)

\* promise.then(stop): no handler for a rejection
thenStop(outcome) == IF outcome = "rejected" THEN "rejected" ELSE "resolved"

\* promise.then(stop, stop): how the returned promise settles once the
\* reaction has run for a promise that settled with `outcome`
thenStopStop(outcome) == "resolved"

\* showWhile: Promise.all([promise, whilePromise]) is made when a While state
\* is recorded
joinsExisting(ps) == ps.type = "while"

\* ------------------------------------------------ ProgressService (pure)
\* each handler of the unscoped reporter: the widget calls it makes
ushowInfinite(delay) == <<Call("infinite", Undef), Call("show", delay)>>
ushowTotal(total, delay) == <<Call("total", total), Call("show", delay)>>
uhandleTotal(total) == <<Call("total", total)>>
uhandleWorked(barHasTotal, worked) ==
    IF barHasTotal THEN <<Call("worked", worked)>>
    ELSE <<Call("infinite", Undef), Call("show", Undef)>>
uhandleDone == <<Call("stop", Undef), Call("hide", Undef)>>
ushowWhile(delay) == <<Call("infinite", Undef), Call("show", delay)>>
ustop == <<Call("stop", Undef), Call("hide", Undef)>>
\* promise.then(stop, stop) of ProgressService.showWhile
uthenStopStop(outcome) == "resolved"

\* -------------------------------------------------------------- promises
\* a promise is one the callers made (op) or the Promise.all made by the
\* showWhile call of that index (all)
OpRef(i) == [kind |-> "op", id |-> i]
AllRef(k) == [kind |-> "all", id |-> k]

PromiseState(p) == IF p.kind = "op" THEN opState[p.id] ELSE calls[p.id].joinState
Settled(p) == PromiseState(p) # "pending"

Job(kind, k, idx, outcome) ==
    [kind |-> kind, call |-> k, idx |-> idx, outcome |-> outcome]

\* the reactions the scoped reporter's call k has registered on promise p,
\* in registration order: Promise.all's element reactions, then the call's
\* own then(stop, stop)
ScopedReactionsOfCall(c, k, p, outcome) ==
    (IF c.joined /\ c.members[1] = p THEN <<Job("all", k, 1, outcome)>> ELSE <<>>)
    \o (IF c.joined /\ c.members[2] = p THEN <<Job("all", k, 2, outcome)>> ELSE <<>>)
    \o (IF c.promise = p THEN <<Job("stop", k, 0, outcome)>> ELSE <<>>)

\* the then(stop, stop) ProgressService.showWhile put on the callers' promise
UnscopedReactionsOfCall(c, k, p, outcome) ==
    IF withUnscoped /\ OpRef(c.op) = p THEN <<Job("ustop", k, 0, outcome)>> ELSE <<>>

\* both reporters' reactions of call k on p; the callers decide which of the
\* two reporters they call first
ReactionsOfCall(c, k, p, outcome) ==
    IF c.ufirst
    THEN UnscopedReactionsOfCall(c, k, p, outcome)
         \o ScopedReactionsOfCall(c, k, p, outcome)
    ELSE ScopedReactionsOfCall(c, k, p, outcome)
         \o UnscopedReactionsOfCall(c, k, p, outcome)

\* settling p queues the reactions of calls 1..k on it, oldest first
RECURSIVE ReactionsOn(_, _, _, _)
ReactionsOn(cs, k, p, outcome) ==
    IF k = 0 THEN <<>>
    ELSE ReactionsOn(cs, k - 1, p, outcome) \o ReactionsOfCall(cs[k], k, p, outcome)

\* -------------------------------------------------------------- actions
StopCalls(cs) == Cardinality({i \in 1..Len(cs) : cs[i].op = "stop"})

\* what every step records: the new reporter state, the widget calls made on
\* both widgets, and the bookkeeping about the step
NoArgs == [delay |-> Undef, at |-> 0]
NoOp == [name |-> "none", arg |-> 0, hadTotal |-> FALSE, wasActive |-> FALSE,
         afterDone |-> FALSE, preState |-> NoneProgressState]

Commit(name, k, newState, newActive, cs, ucs, ref) ==
    /\ progressState' = newState
    /\ isActive' = newActive
    /\ bar' = BarApplyAll(bar, cs)
    /\ ubar' = IF withUnscoped THEN BarApplyAll(ubar, ucs) ELSE ubar
    /\ UNCHANGED <<withUnscoped, stepBound>>
    /\ refState' = ref.state
    /\ refBar' = BarApplyAll(refBar, ref.calls)
    /\ lastCalls' = cs
    /\ lastOp' = [name |-> name, arg |-> k,
                  hadTotal |-> hasTotal(bar), wasActive |-> isActive,
                  afterDone |-> lastOp.name = "done" /\ lastOp.wasActive,
                  preState |-> progressState]
    /\ sinceDone' = IF name = "done" THEN TRUE
                    ELSE IF name \in {"showInfinite", "showTotal", "showWhile"}
                    THEN FALSE
                    ELSE sinceDone
    /\ whileArgs' = IF name = "showWhile" THEN [delay |-> k, at |-> now]
                    ELSE IF newState.type = "while" THEN whileArgs ELSE NoArgs
    /\ workedSum' = IF newState.type # "work" \/ name = "showTotal" THEN 0
                    ELSE IF name # "worked" THEN workedSum
                    ELSE IF progressState.type = "work" THEN workedSum + k
                    ELSE k

\* the always-active reporter takes no part in the step
RefIdle == Result(refState, <<>>)

\* a call other than showWhile, or a scope event
External == /\ steps < stepBound
            /\ steps' = steps + 1
            /\ onlyWhile' = FALSE
            /\ stops' = 0

\* a settlement or a reaction job: no call of the callers
Internal(cs) == /\ stops' = IF onlyWhile THEN stops + StopCalls(cs) ELSE 0
                /\ UNCHANGED <<steps, onlyWhile>>

\* the reporters as constructed, and the callers' promises, all pending
Constructed ==
    /\ isActive \in BOOLEAN
    /\ progressState = NoneProgressState
    /\ bar = NewBar
    /\ ubar = NewBar
    /\ refState = NoneProgressState
    /\ refBar = NewBar
    /\ now = MinTime
    /\ opState = [i \in 1..MaxOps |-> "pending"]
    /\ calls = <<>>
    /\ jobs = <<>>
    /\ hasHandle = FALSE
    /\ steps = 0
    /\ lastOp = NoOp
    /\ lastCalls = <<>>
    /\ whileArgs = NoArgs
    /\ workedSum = 0
    /\ onlyWhile = isActive
    /\ stops = 0
    /\ sinceDone = FALSE
    /\ withUnscoped \in BOOLEAN

\* runs that drive both reporters are kept shorter
Init ==
    /\ Constructed
    /\ stepBound = IF withUnscoped THEN MaxStepsBoth ELSE MaxSteps

InitLive ==
    /\ Constructed
    /\ stepBound = IF withUnscoped THEN MaxStepsBoth ELSE MaxStepsLive

Tick ==
    /\ now < MaxTime
    /\ now' = now + 1
    /\ lastOp' = NoOp
    /\ lastCalls' = <<>>
    /\ UNCHANGED <<isActive, progressState, bar, ubar, refState, refBar, opState, calls, jobs,
                   hasHandle, steps, whileArgs, workedSum, onlyWhile, stops,
                   sinceDone, withUnscoped, stepBound>>

\* how a scope event is recorded in lastOp: by the event and by whether the
\* id the viewlet or panel service sent is the id the reporter was built with
ScopeEvent(event, scopeId) == IF scopeId = OwnScopeId THEN event ELSE "ignored"

ScopeOpened(scopeId) ==
    /\ External
    /\ IF isOwnScope(scopeId)
       THEN Commit(ScopeEvent("opened", scopeId), 0, progressState, TRUE,
                   onScopeActivated(progressState, now), <<>>, RefIdle)
       ELSE Commit(ScopeEvent("opened", scopeId), 0, progressState, isActive,
                   <<>>, <<>>, RefIdle)
    /\ UNCHANGED <<now, opState, calls, jobs, hasHandle>>

ScopeClosed(scopeId) ==
    /\ External
    /\ IF isOwnScope(scopeId)
       THEN Commit(ScopeEvent("closed", scopeId), 0, progressState, FALSE,
                   <<>>, <<>>, RefIdle)
       ELSE Commit(ScopeEvent("closed", scopeId), 0, progressState, isActive,
                   <<>>, <<>>, RefIdle)
    /\ UNCHANGED <<now, opState, calls, jobs, hasHandle>>

ShowInfinite(infinite, delay) ==
    /\ External
    /\ infinite \in BOOLEAN
    /\ LET r == showInfinite(isActive, delay)
       IN Commit("showInfinite", 0, r.state, isActive, r.calls, ushowInfinite(delay),
                 showInfinite(TRUE, delay))
    /\ hasHandle' = TRUE
    /\ UNCHANGED <<now, opState, calls, jobs>>

ShowTotal(total, delay) ==
    /\ External
    /\ LET r == showTotal(isActive, total, delay)
       IN Commit("showTotal", 0, r.state, isActive, r.calls, ushowTotal(total, delay),
                 showTotal(TRUE, total, delay))
    /\ hasHandle' = TRUE
    /\ UNCHANGED <<now, opState, calls, jobs>>

HandleTotal(total) ==
    /\ External
    /\ hasHandle
    /\ LET r == handleTotal(progressState, isActive, total)
       IN Commit("total", total, r.state, isActive, r.calls, uhandleTotal(total),
                 handleTotal(refState, TRUE, total))
    /\ UNCHANGED <<now, opState, calls, jobs, hasHandle>>

HandleWorked(worked) ==
    /\ External
    /\ hasHandle
    /\ LET r == handleWorked(progressState, isActive, hasTotal(bar), worked)
       IN Commit("worked", worked, r.state, isActive, r.calls,
                 uhandleWorked(hasTotal(ubar), worked),
                 handleWorked(refState, TRUE, hasTotal(refBar), worked))
    /\ UNCHANGED <<now, opState, calls, jobs, hasHandle>>

HandleDone ==
    /\ External
    /\ hasHandle
    /\ LET r == handleDone(isActive)
       IN Commit("done", 0, r.state, isActive, r.calls, uhandleDone, handleDone(TRUE))
    /\ UNCHANGED <<now, opState, calls, jobs, hasHandle>>

\* showWhile(promise, delay), promise being the callers' promise `op`
ShowWhile(op, delay, ufirst) ==
    /\ Len(calls) < MaxCalls
    /\ LET k == Len(calls) + 1
           joined == joinsExisting(progressState)
           members == <<OpRef(op),
                        IF joined THEN progressState.whilePromise ELSE OpRef(op)>>
           promise == IF joined THEN AllRef(k) ELSE OpRef(op)
           c == [op |-> op, joined |-> joined, members |-> members,
                 promise |-> promise,
                 joinState |-> IF joined THEN "pending" ELSE "none",
                 remaining |-> IF joined THEN 2 ELSE 0,
                 ret |-> "pending", uret |-> "pending",
                 stopRan |-> FALSE, ustopRan |-> FALSE,
                 \* the order of the two reporters' reactions in the reaction
                 \* list of the callers' promise, kept while it is pending
                 ufirst |-> withUnscoped /\ ufirst /\ ~Settled(OpRef(op))]
           \* reactions put on a promise that has settled are queued at once
           ready(idx) == IF joined /\ Settled(members[idx])
                         THEN <<Job("all", k, idx, PromiseState(members[idx]))>>
                         ELSE <<>>
           readyStop == IF ~joined /\ Settled(promise)
                        THEN <<Job("stop", k, 0, PromiseState(promise))>>
                        ELSE <<>>
           readyUnscoped == IF withUnscoped /\ Settled(OpRef(op))
                            THEN <<Job("ustop", k, 0, PromiseState(OpRef(op)))>>
                            ELSE <<>>
           scoped == ready(1) \o ready(2) \o readyStop
       IN /\ calls' = Append(calls, c)
          /\ jobs' = jobs \o (IF ufirst THEN readyUnscoped \o scoped
                              ELSE scoped \o readyUnscoped)
          /\ Commit("showWhile", delay, showWhileState(promise, delay, now),
                    isActive, doShowWhile(isActive, delay), ushowWhile(delay),
                    Result(showWhileState(promise, delay, now),
                           doShowWhile(TRUE, delay)))
    /\ steps < stepBound
    /\ steps' = steps + 1
    /\ UNCHANGED <<now, opState, hasHandle, onlyWhile, stops>>

\* a promise of the callers settles; its reactions are queued
Settle(op, outcome) ==
    /\ opState[op] = "pending"
    /\ opState' = [opState EXCEPT ![op] = outcome]
    /\ jobs' = jobs \o ReactionsOn(calls, Len(calls), OpRef(op), outcome)
    \* settling empties the promise's reaction list
    /\ calls' = [k \in 1..Len(calls) |->
                   IF calls[k].op = op THEN [calls[k] EXCEPT !.ufirst = FALSE]
                   ELSE calls[k]]
    /\ Commit("settle", op, progressState, isActive, <<>>, <<>>, RefIdle)
    /\ Internal(<<>>)
    /\ UNCHANGED <<now, hasHandle>>

\* Promise.all's reaction to one of its two members
RunAllJob ==
    /\ jobs # <<>>
    /\ Head(jobs).kind = "all"
    /\ LET j == Head(jobs)
           k == j.call
           c == calls[k]
           left == c.remaining - 1
           state == IF c.joinState # "pending" THEN c.joinState
                    ELSE IF j.outcome = "rejected" THEN "rejected"
                    ELSE IF left = 0 THEN "fulfilled" ELSE "pending"
           settlesNow == c.joinState = "pending" /\ state # "pending"
           cs == [calls EXCEPT ![k].joinState = state,
                               ![k].remaining = IF j.outcome = "fulfilled"
                                                THEN left ELSE c.remaining]
       IN /\ calls' = cs
          /\ jobs' = Tail(jobs) \o
                     (IF settlesNow
                      THEN ReactionsOn(cs, Len(cs), AllRef(k), state) ELSE <<>>)
          /\ Commit("all", k, progressState, isActive, <<>>, <<>>, RefIdle)
    /\ Internal(<<>>)
    /\ UNCHANGED <<now, opState, hasHandle>>

\* the then(stop, stop) reaction of showWhile call k
RunStopJob ==
    /\ jobs # <<>>
    /\ Head(jobs).kind = "stop"
    /\ LET j == Head(jobs)
           k == j.call
           c == calls[k]
           r == stop(progressState, isActive, c.promise)
       IN /\ calls' = [calls EXCEPT ![k].ret = thenStopStop(j.outcome),
                                    ![k].stopRan = TRUE]
          /\ jobs' = Tail(jobs)
          /\ Commit("stop", k, r.state, isActive, r.calls, <<>>,
                    stop(refState, TRUE, c.promise))
          /\ Internal(r.calls)
    /\ UNCHANGED <<now, opState, hasHandle>>

\* the then(stop, stop) reaction of ProgressService.showWhile for call k
RunUnscopedStopJob ==
    /\ jobs # <<>>
    /\ Head(jobs).kind = "ustop"
    /\ LET j == Head(jobs)
           k == j.call
       IN /\ calls' = [calls EXCEPT ![k].uret = uthenStopStop(j.outcome),
                                    ![k].ustopRan = TRUE]
          /\ jobs' = Tail(jobs)
          /\ Commit("ustop", k, progressState, isActive, <<>>, ustop, RefIdle)
    /\ Internal(<<>>)
    /\ UNCHANGED <<now, opState, hasHandle>>

Next ==
    \/ Tick
    \/ \E id \in ScopeIds : ScopeOpened(id)
    \/ \E id \in ScopeIds : ScopeClosed(id)
    \/ \E b \in BOOLEAN, d \in Delays : ShowInfinite(b, d)
    \/ \E n \in Totals, d \in Delays : ShowTotal(n, d)
    \/ \E n \in Totals : HandleTotal(n)
    \/ \E n \in Deltas : HandleWorked(n)
    \/ HandleDone
    \/ \E op \in 1..MaxOps, d \in Delays, u \in BOOLEAN : ShowWhile(op, d, u)
    \/ \E op \in 1..MaxOps, o \in Outcomes : Settle(op, o)
    \/ RunAllJob
    \/ RunStopJob
    \/ RunUnscopedStopJob

Spec == Init /\ [][Next]_vars

\* Every step of the program, with the scheduling the engine and the callers
\* provide: a reaction job that has been queued is run by the job queue, and
\* every promise the callers hold is settled by them in the end.
SpecLive ==
    /\ InitLive
    /\ [][Next]_vars
    /\ WF_vars(RunAllJob)
    /\ WF_vars(RunStopJob)
    /\ WF_vars(RunUnscopedStopJob)
    /\ \A op \in 1..MaxOps : WF_vars(\E o \in Outcomes : Settle(op, o))

\* ---------------------------------------------------------------- claims
\* the callers' promises a promise stands for: itself, or the members of the
\* Promise.all it is
RECURSIVE GroupOf(_)
GroupOf(p) ==
    IF p.kind = "op" THEN {p.id}
    ELSE GroupOf(calls[p.id].members[1]) \cup GroupOf(calls[p.id].members[2])

GroupSettled(p) == \A i \in GroupOf(p) : opState[i] # "pending"

SameWidget(a, b) == a.mode = b.mode /\ a.total = b.total /\ a.worked = b.worked
StopHide == <<Call("stop", Undef), Call("hide", Undef)>>
InfiniteShow(delay) == <<Call("infinite", Undef), Call("show", delay)>>

\* C1: whenever the scoped reporter is active, its widget is in the state the
\* widget of an always-active scoped reporter reaches for the same calls
\* (mode, total and worked amount).
C1_ReplayMatchesAlwaysActive ==
    isActive => SameWidget(bar, refBar)

\* C2: a step that leaves the scoped reporter inactive (a show, showWhile or
\* handle call, a settlement callback, or the scope-closed event itself) has
\* made no widget call.
C2_InactiveMakesNoWidgetCall ==
    ~isActive => lastCalls = <<>>

\* C2 witness: a showWhile settlement callback ran on the inactive reporter
\* and took the state from While to None.
C2_Witness ==
    /\ ~isActive
    /\ lastOp.name = "stop"
    /\ lastOp.preState.type = "while"
    /\ progressState = NoneProgressState

\* C3: when the stop callback of a joined showWhile call stops the widget,
\* every operation of the joined group has settled.
C3_JoinedProgressKeptUntilAllSettle ==
    (/\ lastOp.name = "stop"
     /\ calls[lastOp.arg].joined
     /\ lastOp.preState.type = "while"
     /\ lastOp.preState.whilePromise = calls[lastOp.arg].promise
     /\ StopCalls(lastCalls) > 0)
    => GroupSettled(calls[lastOp.arg].promise)

\* C4: of two overlapping showWhile calls, neither returned future has
\* resolved before both underlying operations have settled.
C4_BothFuturesWaitForBoth ==
    \A k \in 2..Len(calls) :
        calls[k].joined =>
            \A i \in {k - 1, k} :
                calls[i].ret = "resolved" => GroupSettled(calls[k].promise)

\* C5: the future showWhile returns (scoped and unscoped reporter) is pending
\* or resolved, never rejected, and it is resolved only once the promise it
\* hooked on has settled and the stop callback has run.
C5_ReturnedFutureNeverRejects ==
    \A k \in 1..Len(calls) :
        /\ calls[k].ret \in {"pending", "resolved"}
        /\ calls[k].uret \in {"pending", "resolved"}
        /\ calls[k].ret = "resolved" =>
              calls[k].stopRan /\ Settled(calls[k].promise)
        /\ calls[k].uret = "resolved" =>
              calls[k].ustopRan /\ opState[calls[k].op] # "pending"

\* C5 witness: the tracked operation rejected and both returned futures
\* resolved.
C5_Witness ==
    \E k \in 1..Len(calls) :
        /\ opState[calls[k].op] = "rejected"
        /\ ~calls[k].joined
        /\ calls[k].ret = "resolved"
        /\ calls[k].uret = "resolved"

\* C6: with two joined showWhile calls on a reporter that has been active
\* throughout and no other call, the widget is not stopped before both
\* operations have settled, is never stopped twice, and has been stopped once
\* when both have settled and every callback has run.
C6_StoppedOnceAtLastSettlement ==
    (onlyWhile /\ Len(calls) = 2 /\ calls[2].joined) =>
        /\ stops <= 1
        /\ stops > 0 => GroupSettled(calls[2].promise)
        /\ (GroupSettled(calls[2].promise) /\ jobs = <<>>) => stops = 1

\* C7: an activation at time t > t0 that finds the While state recorded at t0
\* by showWhile(op, d), d > 0, re-issues the indeterminate start with delay
\* d - (t - t0) when that is positive and with no delay otherwise.
C7_ReplayUsesRemainingDelay ==
    (/\ lastOp.name = "opened"
     /\ progressState.type = "while"
     /\ whileArgs.delay > 0
     /\ now > whileArgs.at)
    => lastCalls =
         InfiniteShow(IF whileArgs.delay - (now - whileArgs.at) > 0
                      THEN whileArgs.delay - (now - whileArgs.at) ELSE Undef)

\* C7 witness: showWhile(op, 2) was recorded on an inactive reporter, the
\* clock advanced by 1, and the activation re-issued the start with delay 1.
C7_Witness ==
    /\ lastOp.name = "opened"
    /\ ~lastOp.wasActive
    /\ progressState.type = "while"
    /\ whileArgs.delay = 2
    /\ now = whileArgs.at + 1
    /\ lastCalls = InfiniteShow(1)

\* C8: worked(n) on an active reporter whose widget has no total records
\* Infinite and starts and shows the widget's indeterminate mode; no worked
\* amount reaches the widget.
C8_WorkedFallsBackToInfinite ==
    (lastOp.name = "worked" /\ lastOp.wasActive /\ ~lastOp.hadTotal) =>
        /\ progressState = InfiniteProgressState
        /\ lastCalls = InfiniteShow(Undef)
        /\ bar.mode = "infinite"

\* C8 witness: worked(1) was called on an active reporter with a recorded
\* Work state whose widget had no total.
C8_Witness ==
    /\ lastOp.name = "worked"
    /\ lastOp.arg = 1
    /\ lastOp.wasActive
    /\ ~lastOp.hadTotal
    /\ lastOp.preState.type = "work"

\* C9 as stated: after done() twice in a row on an active reporter the state
\* is Done and the second done() has made no widget call.
C9_SecondDoneMakesNoWidgetCall ==
    (lastOp.name = "done" /\ lastOp.wasActive /\ lastOp.afterDone) =>
        /\ progressState = DoneProgressState
        /\ lastCalls = <<>>

\* C9 as amended: after done() twice in a row on an active reporter the state
\* was Done after the first call and is Done after the second; the second
\* done() issues stop and hide again, and the widget is stopped.
C9_SecondDoneStopsAgain ==
    (lastOp.name = "done" /\ lastOp.wasActive /\ lastOp.afterDone) =>
        /\ lastOp.preState = DoneProgressState
        /\ progressState = DoneProgressState
        /\ lastCalls = StopHide
        /\ bar.mode = "stopped"

\* C9 witness: done() has been called twice in a row on an active reporter.
C9_Witness ==
    lastOp.name = "done" /\ lastOp.wasActive /\ lastOp.afterDone

WorkedOr0(ps) == IF ps.worked = Undef THEN 0 ELSE ps.worked

\* C10 as stated: every worked(n) called in a Work state yields Work with the
\* same total and worked raised by n.
C10_WorkedAlwaysAccumulates ==
    (lastOp.name = "worked" /\ lastOp.preState.type = "work") =>
        progressState = WorkProgressState(lastOp.preState.total,
                                          WorkedOr0(lastOp.preState) + lastOp.arg)

\* C10 as amended: worked(n) called in a Work state on a reporter that is
\* inactive or whose widget has a total yields Work with the same total and
\* worked raised by n; total(n) called in a Work state keeps worked; the
\* recorded worked is the sum of the worked amounts since the state became
\* Work; a worked amount an activation replays is that sum, and it is
\* replayed whenever the sum is not 0.
C10_WorkedAccumulates ==
    /\ (/\ lastOp.name = "worked"
        /\ lastOp.preState.type = "work"
        /\ (~lastOp.wasActive \/ lastOp.hadTotal))
       => progressState = WorkProgressState(lastOp.preState.total,
                              WorkedOr0(lastOp.preState) + lastOp.arg)
    /\ (lastOp.name = "total" /\ lastOp.preState.type = "work")
       => progressState = WorkProgressState(lastOp.arg, lastOp.preState.worked)
    /\ progressState.type = "work" => WorkedOr0(progressState) = workedSum
    /\ (lastOp.name = "opened" /\ progressState.type = "work") =>
          /\ \A i \in 1..Len(lastCalls) :
                lastCalls[i].op = "worked" => lastCalls[i].arg = workedSum
          /\ workedSum # 0 =>
                \E i \in 1..Len(lastCalls) : lastCalls[i] = Call("worked", workedSum)

\* C10 witness: an activation replayed a worked amount of 2 that two
\* worked(1) calls had accumulated.
C10_Witness ==
    /\ lastOp.name = "opened"
    /\ progressState.type = "work"
    /\ workedSum = 2
    /\ \E i \in 1..Len(lastCalls) : lastCalls[i] = Call("worked", 2)

\* C11: the stop callback of a showWhile call that a newer show (the state is
\* Infinite, Work or Done) or a newer showWhile (the state is a While on
\* another promise) has superseded leaves the state as it was and makes no
\* widget call.
C11_SupersededStopIsNoOp ==
    (/\ lastOp.name = "stop"
     /\ \/ lastOp.preState.type \in {"infinite", "work", "done"}
        \/ /\ lastOp.preState.type = "while"
           /\ lastOp.preState.whilePromise # calls[lastOp.arg].promise)
    => /\ progressState = lastOp.preState
       /\ lastCalls = <<>>

\* C12: when the stop callback of a promise runs in a While state, the state
\* and the widget are left alone if the recorded promise is another one, and
\* the state becomes None if it is the same one.
C12_StaleResolutionIgnored ==
    (lastOp.name = "stop" /\ lastOp.preState.type = "while") =>
        IF lastOp.preState.whilePromise # calls[lastOp.arg].promise
        THEN progressState = lastOp.preState /\ lastCalls = <<>>
        ELSE progressState = NoneProgressState

\* C12 witness: on an active reporter the first of two joined calls' promise
\* settled and its stop callback left the While state of the join in place.
C12_Witness ==
    /\ lastOp.name = "stop"
    /\ lastOp.wasActive
    /\ lastOp.preState.type = "while"
    /\ lastOp.preState.whilePromise = AllRef(2)
    /\ calls[lastOp.arg].promise = OpRef(calls[1].op)
    /\ progressState = lastOp.preState

\* C13 as stated: worked(n) called in a state that is not Work leaves the
\* state Infinite, active or not, whatever the widget's hasTotal().
C13_WorkedOutsideWorkIsInfinite ==
    (lastOp.name = "worked" /\ lastOp.preState.type # "work") =>
        progressState = InfiniteProgressState

\* C13 as amended: worked(n) called in a state that is not Work leaves the
\* state Infinite when the reporter is active and its widget has no total;
\* when the reporter is inactive or the widget has a total it records
\* Work with no total and worked = n.
C13_WorkedOutsideWork ==
    (lastOp.name = "worked" /\ lastOp.preState.type # "work") =>
        IF lastOp.wasActive /\ ~lastOp.hadTotal
        THEN progressState = InfiniteProgressState
        ELSE progressState = WorkProgressState(Undef, lastOp.arg)

\* C13 witness: worked(1) on an inactive reporter in the Infinite state
\* recorded Work with no total and worked = 1.
C13_Witness ==
    /\ lastOp.name = "worked"
    /\ ~lastOp.wasActive
    /\ lastOp.preState = InfiniteProgressState
    /\ progressState = WorkProgressState(Undef, 1)

\* C14: an activation that finds a Work state issues the total (and show)
\* when a total is recorded, 0 included, then the worked amount (and show)
\* when a worked amount is recorded, and issues no worked amount unless it
\* issued a total before it.
C14_ReplayTotalThenWorked ==
    (lastOp.name = "opened" /\ progressState.type = "work") =>
        /\ lastCalls =
             (IF progressState.total # Undef
              THEN <<Call("total", progressState.total), Call("show", Undef)>>
              ELSE <<>>)
             \o (IF progressState.worked # Undef
                 THEN <<Call("worked", progressState.worked), Call("show", Undef)>>
                 ELSE <<>>)
        /\ \A i \in 1..Len(lastCalls) :
              lastCalls[i].op = "worked" =>
                  \E j \in 1..(i - 1) : lastCalls[j].op = "total"

\* C15: a scope event leaves the recorded ProgressState as it was; an event
\* for the reporter's own scope sets the activity flag (opened: active, with
\* the replay calls; closed: inactive, no widget call), and an event for any
\* other scope id changes neither the flag nor the widget.
C15_ScopeEventsKeepState ==
    /\ lastOp.name \in {"opened", "closed", "ignored"} =>
           progressState = lastOp.preState
    /\ lastOp.name = "opened" =>
           /\ isActive
           /\ lastCalls = onScopeActivated(lastOp.preState, now)
    /\ lastOp.name = "closed" => ~isActive /\ lastCalls = <<>>
    /\ lastOp.name = "ignored" =>
           isActive = lastOp.wasActive /\ lastCalls = <<>>

\* C15 witness: an event for another scope reached an inactive reporter that
\* holds an Infinite state, and the reporter stayed inactive and silent.
C15_Witness ==
    /\ lastOp.name = "ignored"
    /\ ~lastOp.wasActive
    /\ ~isActive
    /\ progressState = InfiniteProgressState
    /\ lastCalls = <<>>

\* C16: once a handle's done() has been called, and until the next show or
\* showWhile call, an activation of the reporter's scope issues no widget
\* call.
C16_NoReplayAfterDone ==
    (lastOp.name = "opened" /\ sinceDone) => lastCalls = <<>>

\* two widgets that were given the same sequence of calls are in the same
\* state
SameCallsSoFar(b1, b2) == b1 = b2

\* C17: whenever no settlement callback is waiting to run, the widget of a
\* scoped reporter that has been active from its construction on is in the
\* state of the unscoped reporter's widget, both having been given the same
\* show, showWhile and handle calls and the same settlements.
C17_AlwaysActiveMatchesUnscoped ==
    (withUnscoped /\ jobs = <<>>) => SameCallsSoFar(refBar, ubar)

\* the time a While state records: the constructor slot showWhile passes
\* Date.now() into
StartTime(ps) == ps.whileDelay

\* C18: a showWhile call made while the state is a While begun at t0 records
\* a While that still begins at t0.
C18_JoinKeepsEarlierStart ==
    (lastOp.name = "showWhile" /\ lastOp.preState.type = "while") =>
        /\ progressState.type = "while"
        /\ StartTime(progressState) = StartTime(lastOp.preState)

\* C20: whenever the reporter is active and the recorded state is While, its
\* widget is in indeterminate mode, and the step that led here made no
\* stop() and no total() call on the widget.
C20_ActiveWhileIsIndeterminate ==
    (isActive /\ progressState.type = "while") =>
        /\ bar.mode = "infinite"
        /\ \A i \in 1..Len(lastCalls) : lastCalls[i].op \notin {"stop", "total"}

\* C20 witness: the scope of an inactive reporter holding a While state was
\* opened, and the replay put the widget in indeterminate mode.
C20_Witness ==
    /\ lastOp.name = "opened"
    /\ ~lastOp.wasActive
    /\ isActive
    /\ progressState.type = "while"
    /\ lastCalls # <<>>
    /\ bar.mode = "infinite"

\* C19: when every promise given to showWhile settles and the queued
\* settlement callbacks are run, the recorded state ends up not being While
\* and stays so once the calls have stopped.
C19_WhileEventuallyCleared ==
    <>[](progressState.type # "while")

\* C19 witness: two overlapping showWhile calls were joined, both promises
\* have settled, every callback has run, and the last one cleared the joined
\* While state.
C19_Witness ==
    /\ Len(calls) = 2
    /\ calls[2].joined
    /\ \A op \in 1..MaxOps : opState[op] # "pending"
    /\ jobs = <<>>
    /\ lastOp.name = "stop"
    /\ lastOp.preState.type = "while"
    /\ lastOp.preState.whilePromise = AllRef(2)
    /\ progressState = NoneProgressState

====
